---------------------------- MODULE Spec2Model ----------------------------
(***************************************************************************)
(* authService (src/api/authService.ts): the client-side session helper.   *)
(*                                                                         *)
(* The program's state is the entry the key-value store holds under        *)
(* USER_DATA_KEY, and, for every caller, the position of the asynchronous  *)
(* method it is running.  Every `await` of the source is a suspension      *)
(* point: an action of the model is the piece of a method that runs from   *)
(* the completion of one awaited call to the next await (or to the return).*)
(* The two collaborators, the HTTP transport and the store, complete each  *)
(* call with success or with failure; the model draws that outcome with \E.*)
(***************************************************************************)
EXTENDS Naturals, Sequences, FiniteSets

\* Number of distinct profile bodies the server may answer a login with.
NumBodies == 2

ProfileNames == <<"alice", "bob", "carol", "dave", "erin">>

\* The bodies of the server's login responses (UserProfile values).
Bodies == { ProfileNames[i] : i \in 1..NumBodies }

\* The callers that may have a method of authService in progress.
Callers == {"c1", "c2"}

\* The methods of authService.
Ops == {"login", "logout", "forceLogout", "cleanLocalStorage",
        "isAuthenticated", "getCurrentUser"}

\* The requests the module sends.
PostLogin   == "POST /api/auth/login"
PostLogout  == "POST /api/auth/logout"
PostForced  == "POST /api/auth/logout?t="
GetMe       == "GET /api/auth/me"

\* The store primitives the module calls on USER_DATA_KEY, and JSON.parse.
GetItem    == "AsyncStorage.getItem"
SetItem    == "AsyncStorage.setItem"
RemoveItem == "AsyncStorage.removeItem"
JsonParse  == "JSON.parse"

\* How a request may fail: no response at all, or a non-success status.
TransportErrors == {"network error", "status error"}

\* The error a rejected store primitive carries, and JSON.parse's error.
StorageError == "storage error"
SyntaxError  == "SyntaxError"

\* Values a method hands to its caller besides a profile body.
Null  == "null"
True  == "true"
False == "false"
Void  == "undefined"

\* The store's user_data entry: NoEntry when the key is absent (getItem
\* resolves to null), otherwise the stored string, here a sequence of tokens.
NoEntry == <<>>

\* JSON.stringify of a profile body.
Stringify(b) == <<"{", b, "}">>

\* A string JSON.parse rejects (an entry cut short).
Truncated(b) == <<"{", b>>

\* Whether JSON.parse accepts the string.
Parses(s) == Len(s) = 3 /\ s[1] = "{" /\ s[3] = "}"

\* JSON.parse of a string it accepts.
Parse(s) == s[2]

\* JavaScript truthiness of what getItem resolved to (null and "" are falsy).
Truthy(s) == s # NoEntry

VARIABLES
    store,   \* the store's entry under USER_DATA_KEY
    pc,      \* per caller: the await its method is suspended on, or "idle"
    frame,   \* per caller: the running method's locals and what it did so far
    last,    \* the most recently completed call, as its caller observed it
    prev,    \* when calls are awaited: the call completed before `last`
    awaited, \* whether the application awaits each call before the next one
    observed \* whether completed calls are recorded in `last` and `prev`, and
             \* what other callers did in the frames' fresh, late and calm

vars == <<store, pc, frame, last, prev, awaited, observed>>

\* A method's locals and what it has done since it was called: the calls it
\* made to the transport, the store and JSON.parse, in order, and how each was
\* answered ("ok" or the error), the store's entry when the method was called
\* (recorded when calls are awaited), the login response body and the local
\* userData (in login the response's data, in isAuthenticated and getCurrentUser
\* what getItem resolves to).  Three more fields record what other callers did
\* to the store while the method was in progress:
\*   fresh  in isAuthenticated, after its getItem took effect and until its
\*          removeItem does: the store holds an entry that a login wrote since
\*          that read;
\*   late   in isAuthenticated: a login's setItem took effect after the
\*          method's last access to the store (a read that found nothing, or
\*          its removeItem);
\*   calm   in getCurrentUser: when it was called the store held an entry and
\*          another caller's logout() or forceLogout() was suspended on its
\*          request, and no other caller has taken a step since.
NoFrame == [op |-> "none", calls |-> <<>>, replies |-> <<>>,
            before |-> NoEntry, body |-> Null, userData |-> Null,
            fresh |-> FALSE, late |-> FALSE, calm |-> FALSE]

\* A completed call as its caller observed it.
NoCall == [op |-> "none", result |-> [kind |-> "none", val |-> Void],
           calls |-> <<>>, replies |-> <<>>,
           before |-> NoEntry, after |-> NoEntry, body |-> Null,
           fresh |-> FALSE, late |-> FALSE, calm |-> FALSE]

\* How a call ends: the promise resolves with a value or rejects with an error.
Value(v) == [kind |-> "return", val |-> v]
Raise(e) == [kind |-> "raise", val |-> e]

\* Another caller's logout() or forceLogout() is suspended on its request.
PeerLoggingOut(p) ==
    \E q \in Callers \ {p} :
        /\ frame[q].op \in {"logout", "forceLogout"}
        /\ pc[q] \in {"logout_post", "force_post"}

Entered(p, o)  == [NoFrame EXCEPT !.op = o,
                                  !.before = IF awaited /\ observed THEN store
                                             ELSE NoEntry,
                                  !.calm = /\ observed
                                           /\ o = "getCurrentUser"
                                           /\ store # NoEntry
                                           /\ PeerLoggingOut(p)]
Called(f, c)   == [f EXCEPT !.calls = Append(@, c)]
Replied(f, r)  == [f EXCEPT !.replies = Append(@, r)]

\* isAuthenticated of caller q has read the store and not yet removed the entry.
ReadNotRemoved(q) ==
    /\ frame[q].op = "isAuthenticated"
    /\ \/ pc[q] = "auth_got"
       \/ /\ pc[q] \in {"auth_me", "logout_post", "clean_remove"}
          /\ frame[q].replies # <<>>
          /\ frame[q].replies[1] = "ok"

\* isAuthenticated of caller q has made its last access to the store.
PastLastAccess(q) ==
    /\ frame[q].op = "isAuthenticated"
    /\ \/ pc[q] = "auth_got" /\ ~Truthy(frame[q].userData)
       \/ pc[q] = "clean_removed"

\* What the method of caller q records of a step of caller p that takes p
\* from pc[p] to `at`.
Onlooker(q, p, at) ==
    LET writes  == pc[p] = "login_set" /\ at = "login_set_ok"
        removes == pc[p] = "clean_remove" /\ at = "clean_removed"
    IN  IF ~observed THEN frame[q]
        ELSE [frame[q] EXCEPT
                !.calm  = FALSE,
                !.fresh = IF ReadNotRemoved(q) /\ writes THEN TRUE
                          ELSE IF ReadNotRemoved(q) /\ removes THEN FALSE
                          ELSE @,
                !.late  = IF PastLastAccess(q) /\ writes THEN TRUE ELSE @]

\* The method of caller p suspends on the await named `at`.
Suspend(p, f, at) ==
    /\ pc' = [pc EXCEPT ![p] = at]
    /\ frame' = [q \in Callers |-> IF q = p THEN f ELSE Onlooker(q, p, at)]
    /\ UNCHANGED <<last, prev, awaited, observed>>

\* The method of caller p settles its promise with r.
Return(p, f, r) ==
    /\ pc' = [pc EXCEPT ![p] = "idle"]
    /\ frame' = [q \in Callers |-> IF q = p THEN NoFrame
                                               ELSE Onlooker(q, p, "idle")]
    /\ prev' = IF awaited /\ observed THEN last ELSE prev
    /\ UNCHANGED <<awaited, observed>>
    /\ last' = IF ~observed THEN last
               ELSE [op |-> f.op, result |-> r, calls |-> f.calls,
                     replies |-> f.replies,
                     before |-> f.before, after |-> store', body |-> f.body,
                     fresh |-> f.fresh, late |-> f.late, calm |-> f.calm]

Idle == \A q \in Callers : pc[q] = "idle"

\* Caller p may call a method: it has none in progress, and when calls are
\* awaited nobody has.
MayCall(p) == pc[p] = "idle" /\ (awaited => Idle)

-----------------------------------------------------------------------------
(* login, lines 32-48 *)

\* login(credentials) is called: api.post('/api/auth/login', credentials).
login(p) ==
    /\ MayCall(p)
    /\ UNCHANGED store
    /\ Suspend(p, Called(Entered(p, "login"), PostLogin), "login_post")

\* The request resolved with body b: userData = response.data, then
\* AsyncStorage.setItem(USER_DATA_KEY, JSON.stringify(userData)) is called.
LoginResolved(p, b) ==
    /\ UNCHANGED store
    /\ Suspend(p, Called([Replied(frame[p], "ok") EXCEPT !.body = b,
                                                           !.userData = b],
                          SetItem),
               "login_set")

\* Faulty variant: the catch block throws an error of its own instead of the one caught.
LoginRejectedWrapped(p, e) ==
    /\ UNCHANGED store
    /\ Return(p, Replied(frame[p], e), Raise("Login failed"))

\* Faulty variant: a failed login also drops whatever profile is cached.
LoginRejectedClears(p, e) ==
    /\ store' = NoEntry
    /\ Return(p, Replied(frame[p], e), Raise(e))

\* The request rejected with e: catch, console.error, throw error.
LoginRejected(p, e) ==
    /\ UNCHANGED store
    /\ Return(p, Replied(frame[p], e), Raise(e))

loginPosted(p) ==
    /\ pc[p] = "login_post"
    /\ \/ \E b \in Bodies : LoginResolved(p, b)
       \/ \E e \in TransportErrors : LoginRejected(p, e)

\* Faulty variant: the profile is written only when nothing is cached yet.
SetItemKeepsExisting(p) ==
    /\ store' = IF store = NoEntry THEN Stringify(frame[p].userData) ELSE store
    /\ Suspend(p, frame[p], "login_set_ok")

\* The store executes the setItem: the entry is replaced as a whole. The
\* method learns of it when the promise resolves, a step of its own.
SetItemTakesEffect(p) ==
    /\ store' = Stringify(frame[p].userData)
    /\ Suspend(p, frame[p], "login_set_ok")

stored(p) ==
    /\ pc[p] = "login_set"
    /\ SetItemTakesEffect(p)

\* setItem resolved: return userData.
LoginSetResolved(p) ==
    /\ UNCHANGED store
    /\ Return(p, Replied(frame[p], "ok"), Value(frame[p].userData))

\* Faulty variant: setItem has a catch of its own that logs and goes on.
LoginSetRejectedSwallowed(p) ==
    /\ UNCHANGED store
    /\ Return(p, Replied(frame[p], StorageError), Value(frame[p].userData))

\* setItem rejected inside the try block: catch, console.error, throw error.
LoginSetRejected(p) ==
    /\ UNCHANGED store
    /\ Return(p, Replied(frame[p], StorageError), Raise(StorageError))

loginStored(p) ==
    \/ pc[p] = "login_set_ok" /\ LoginSetResolved(p)
    \/ pc[p] = "login_set" /\ LoginSetRejected(p)

-----------------------------------------------------------------------------
(* cleanLocalStorage, lines 93-101 *)

\* cleanLocalStorage() is called: AsyncStorage.removeItem(USER_DATA_KEY).
cleanLocalStorage(p) ==
    /\ MayCall(p)
    /\ UNCHANGED store
    /\ Suspend(p, Called(Entered(p, "cleanLocalStorage"), RemoveItem), "clean_remove")

\* What the method that awaited cleanLocalStorage() does next: logout,
\* forceLogout and cleanLocalStorage itself return; isAuthenticated, which
\* awaited logout() in its catch block, returns false.
AfterCleanup(p, f) ==
    Return(p, f, IF f.op = "isAuthenticated" THEN Value(False) ELSE Value(Void))

\* Faulty variant: the removal names another key, the entry stays.
RemoveItemWrongKey(p) ==
    /\ UNCHANGED store
    /\ Suspend(p, frame[p], "clean_removed")

\* The store executes the removeItem: the entry is gone (removing an absent
\* key changes nothing).
RemoveItemTakesEffect(p) ==
    /\ store' = NoEntry
    /\ Suspend(p, frame[p], "clean_removed")

removed(p) ==
    /\ pc[p] = "clean_remove"
    /\ RemoveItemTakesEffect(p)

\* removeItem resolved: console.log, return.
RemoveResolved(p) ==
    /\ UNCHANGED store
    /\ AfterCleanup(p, Replied(frame[p], "ok"))

\* Faulty variant: cleanLocalStorage has no catch block.
RemoveRejectedThrows(p) ==
    /\ UNCHANGED store
    /\ Return(p, Replied(frame[p], StorageError), Raise(StorageError))

\* Faulty variant: the catch block makes up for the failed removal.
RemoveRejectedClears(p) ==
    /\ store' = NoEntry
    /\ AfterCleanup(p, Replied(frame[p], StorageError))

\* removeItem rejected: catch, console.error; the store did nothing.
RemoveRejected(p) ==
    /\ UNCHANGED store
    /\ AfterCleanup(p, Replied(frame[p], StorageError))

cleaned(p) ==
    \/ pc[p] = "clean_removed" /\ RemoveResolved(p)
    \/ pc[p] = "clean_remove" /\ RemoveRejected(p)

-----------------------------------------------------------------------------
(* logout, lines 51-62, and forceLogout, lines 65-90 *)

\* Faulty variant: the cache is cleared first and the server notified afterwards.
LogoutRemovesFirst(p) ==
    /\ MayCall(p)
    /\ store' = NoEntry
    /\ Suspend(p, Called(Entered(p, "logout"), PostLogout), "logout_post")

\* logout() is called: api.post('/api/auth/logout').
logout(p) ==
    /\ MayCall(p)
    /\ UNCHANGED store
    /\ Suspend(p, Called(Entered(p, "logout"), PostLogout), "logout_post")

\* Faulty variant: the cleanup is inside the try block, so a failed request skips it.
LogoutSettledInsideTry(p, r) ==
    /\ UNCHANGED store
    /\ IF r = "ok"
       THEN Suspend(p, Called(Replied(frame[p], r), RemoveItem), "clean_remove")
       ELSE AfterCleanup(p, Replied(frame[p], r))

\* Faulty variant: a rejected logout request is sent once more before the cleanup.
LogoutSettledRetries(p, r) ==
    /\ UNCHANGED store
    /\ IF r # "ok" /\ Len(SelectSeq(frame[p].calls,
                                     LAMBDA c : c = PostLogout)) = 1
       THEN Suspend(p, Called(Replied(frame[p], r), PostLogout), "logout_post")
       ELSE Suspend(p, Called(Replied(frame[p], r), RemoveItem), "clean_remove")

\* The logout request settled with r ("ok" or an error, which the catch block
\* logs): this.cleanLocalStorage() is called.
LogoutSettled(p, r) ==
    /\ UNCHANGED store
    /\ Suspend(p, Called(Replied(frame[p], r), RemoveItem), "clean_remove")

logoutPosted(p) ==
    /\ pc[p] = "logout_post"
    /\ \E r \in {"ok"} \cup TransportErrors : LogoutSettled(p, r)

\* forceLogout() is called: logoutClient.post(`/api/auth/logout?t=...`) on an
\* axios instance of its own.
forceLogout(p) ==
    /\ MayCall(p)
    /\ UNCHANGED store
    /\ Suspend(p, Called(Entered(p, "forceLogout"), PostForced), "force_post")

\* Faulty variant: the cleanup is inside the try block, so a failed request skips it.
ForceSettledInsideTry(p, r) ==
    /\ UNCHANGED store
    /\ IF r = "ok"
       THEN Suspend(p, Called(Replied(frame[p], r), RemoveItem), "clean_remove")
       ELSE AfterCleanup(p, Replied(frame[p], r))

\* The forced request settled with r (an error, a timeout included, is logged
\* by the catch block): this.cleanLocalStorage() is called.
ForceSettled(p, r) ==
    /\ UNCHANGED store
    /\ Suspend(p, Called(Replied(frame[p], r), RemoveItem), "clean_remove")

forcePosted(p) ==
    /\ pc[p] = "force_post"
    /\ \E r \in {"ok"} \cup TransportErrors : ForceSettled(p, r)

-----------------------------------------------------------------------------
(* isAuthenticated, lines 104-118 *)

\* isAuthenticated() is called: AsyncStorage.getItem(USER_DATA_KEY).
isAuthenticated(p) ==
    /\ MayCall(p)
    /\ UNCHANGED store
    /\ Suspend(p, Called(Entered(p, "isAuthenticated"), GetItem), "auth_get")

\* The catch block of isAuthenticated: console.error, then this.logout(),
\* whose first step sends the logout request.
SessionInvalid(p, f) ==
    /\ UNCHANGED store
    /\ Suspend(p, Called(f, PostLogout), "logout_post")

\* Faulty variant: the presence check is missing, the session is always validated.
AuthGetNoShortCircuit(p) ==
    /\ UNCHANGED store
    /\ Suspend(p, Called(Replied(frame[p], "ok"), GetMe), "auth_me")

\* The store executes the getItem of isAuthenticated: the promise will resolve
\* to the entry as it is now.
AuthGetTakesEffect(p) ==
    /\ UNCHANGED store
    /\ Suspend(p, [frame[p] EXCEPT !.userData = store], "auth_got")

authFetched(p) ==
    /\ pc[p] = "auth_get"
    /\ AuthGetTakesEffect(p)

\* getItem resolved with userData: if (!userData) return false; otherwise
\* api.get('/api/auth/me') is called.
AuthGetResolved(p) ==
    IF ~Truthy(frame[p].userData)
    THEN /\ UNCHANGED store
         /\ Return(p, Replied(frame[p], "ok"), Value(False))
    ELSE /\ UNCHANGED store
         /\ Suspend(p, Called(Replied(frame[p], "ok"), GetMe), "auth_me")

\* Faulty variant: a rejected getItem is handled as a cache miss.
AuthGetRejectedAsMiss(p) ==
    /\ UNCHANGED store
    /\ Return(p, Replied(frame[p], StorageError), Value(False))

\* getItem rejected inside the try block: the catch block runs.
AuthGetRejected(p) ==
    SessionInvalid(p, Replied(frame[p], StorageError))

authRead(p) ==
    \/ pc[p] = "auth_got" /\ AuthGetResolved(p)
    \/ pc[p] = "auth_get" /\ AuthGetRejected(p)

\* Faulty variant: a validated session refreshes the cache by dropping the entry.
MeResolvedDropsEntry(p) ==
    /\ store' = NoEntry
    /\ Return(p, Replied(frame[p], "ok"), Value(True))

\* GET /api/auth/me resolved: return true.
MeResolved(p) ==
    /\ UNCHANGED store
    /\ Return(p, Replied(frame[p], "ok"), Value(True))

\* Faulty variant: the catch block returns false without calling logout().
MeRejectedNoLogout(p, e) ==
    /\ UNCHANGED store
    /\ Return(p, Replied(frame[p], e), Value(False))

\* GET /api/auth/me rejected with e: the catch block runs.
MeRejected(p, e) ==
    SessionInvalid(p, Replied(frame[p], e))

authValidated(p) ==
    /\ pc[p] = "auth_me"
    /\ \/ MeResolved(p)
       \/ \E e \in TransportErrors : MeRejected(p, e)

-----------------------------------------------------------------------------
(* getCurrentUser, lines 121-129 *)

\* getCurrentUser() is called: AsyncStorage.getItem(USER_DATA_KEY).
getCurrentUser(p) ==
    /\ MayCall(p)
    /\ UNCHANGED store
    /\ Suspend(p, Called(Entered(p, "getCurrentUser"), GetItem), "user_get")

\* The store executes the getItem of getCurrentUser: the promise will resolve
\* to the entry as it is now.
UserGetTakesEffect(p) ==
    /\ UNCHANGED store
    /\ Suspend(p, [frame[p] EXCEPT !.userData = store], "user_got")

userFetched(p) ==
    /\ pc[p] = "user_get"
    /\ UserGetTakesEffect(p)

\* getItem resolved with userData: return userData ? JSON.parse(userData) : null;
\* a SyntaxError of JSON.parse is caught and null returned.
UserGetResolved(p) ==
    /\ UNCHANGED store
    /\ IF ~Truthy(frame[p].userData)
       THEN Return(p, Replied(frame[p], "ok"), Value(Null))
       ELSE IF Parses(frame[p].userData)
            THEN Return(p, Replied(Called(Replied(frame[p], "ok"), JsonParse), "ok"),
                        Value(Parse(frame[p].userData)))
            ELSE Return(p, Replied(Called(Replied(frame[p], "ok"), JsonParse),
                                   SyntaxError),
                        Value(Null))

\* getItem rejected: catch, console.error, return null.
UserGetRejected(p) ==
    /\ UNCHANGED store
    /\ Return(p, Replied(frame[p], StorageError), Value(Null))

userRead(p) ==
    \/ pc[p] = "user_got" /\ UserGetResolved(p)
    \/ pc[p] = "user_get" /\ UserGetRejected(p)

-----------------------------------------------------------------------------
(* Specifications *)

Quiet ==
    /\ pc = [p \in Callers |-> "idle"]
    /\ frame = [p \in Callers |-> NoFrame]
    /\ last = NoCall
    /\ prev = NoCall

\* A fresh installation: nothing stored, nobody calling; every call is awaited
\* before the next one is made.
Init ==
    /\ store = NoEntry
    /\ awaited = TRUE
    /\ observed = TRUE
    /\ Quiet

\* The application starts with whatever the durable store holds under the key:
\* nothing, a profile an earlier run wrote, or a string JSON.parse rejects.
DurableInit ==
    /\ store \in {NoEntry} \cup { Stringify(b) : b \in Bodies }
                           \cup { Truncated(b) : b \in Bodies }
    /\ awaited = TRUE
    /\ observed = TRUE
    /\ Quiet

\* Calls are made without awaiting the previous ones: the methods interleave at
\* their suspension points.
ConcInit ==
    /\ store = NoEntry
    /\ awaited = FALSE
    /\ observed = TRUE
    /\ Quiet

\* As ConcInit, with nothing recorded of the calls but what their own frames
\* hold.
FairInit ==
    /\ store = NoEntry
    /\ awaited = FALSE
    /\ observed = FALSE
    /\ Quiet

\* A caller calls a method, or an awaited call completes and the suspended
\* method goes on.
Next ==
    \E p \in Callers :
        \/ login(p)
        \/ logout(p)
        \/ forceLogout(p)
        \/ cleanLocalStorage(p)
        \/ isAuthenticated(p)
        \/ getCurrentUser(p)
        \/ loginPosted(p)
        \/ stored(p)
        \/ removed(p)
        \/ authFetched(p)
        \/ userFetched(p)
        \/ loginStored(p)
        \/ logoutPosted(p)
        \/ forcePosted(p)
        \/ cleaned(p)
        \/ authRead(p)
        \/ authValidated(p)
        \/ userRead(p)

Spec == Init /\ [][Next]_vars

DurableSpec == DurableInit /\ [][Next]_vars

ConcSpec == ConcInit /\ [][Next]_vars

\* An awaited network or storage call of caller p completes and p's method
\* goes on to its next await or to its return.
Completes(p) ==
    \/ loginPosted(p) \/ stored(p) \/ loginStored(p)
    \/ logoutPosted(p) \/ forcePosted(p)
    \/ removed(p) \/ cleaned(p)
    \/ authFetched(p) \/ authRead(p) \/ authValidated(p)
    \/ userFetched(p) \/ userRead(p)

\* Interleaved calls in which every awaited network or storage call
\* eventually completes.
FairSpec ==
    /\ FairInit
    /\ [][Next]_vars
    /\ \A p \in Callers : WF_vars(Completes(p))

TypeOK ==
    /\ store \in {NoEntry} \cup { Stringify(b) : b \in Bodies }
                           \cup { Truncated(b) : b \in Bodies }
    /\ pc \in [Callers -> {"idle", "login_post", "login_set", "logout_post",
                           "force_post", "clean_remove", "auth_get", "auth_me",
                           "user_get", "login_set_ok", "clean_removed",
                           "auth_got", "user_got"}]
    /\ \A p \in Callers : frame[p].op \in Ops \cup {"none"}
    /\ last.op \in Ops \cup {"none"}
    /\ prev.op \in Ops \cup {"none"}
    /\ awaited \in BOOLEAN
    /\ observed \in BOOLEAN

-----------------------------------------------------------------------------
(* Properties *)

AllErrors == TransportErrors \cup {StorageError, SyntaxError}

\* Call c made the collaborator call `name`.
Has(c, name) == \E i \in DOMAIN c.calls : c.calls[i] = name

\* Call c made the collaborator call `name` and it was answered with one of S.
Answered(c, name, S) ==
    \E i \in DOMAIN c.calls :
        /\ c.calls[i] = name
        /\ i \in DOMAIN c.replies
        /\ c.replies[i] \in S

Resolved(c, name) == Answered(c, name, {"ok"})
Rejected(c, name) == Answered(c, name, AllErrors)

Returned(c, v) == c.result = Value(v)

\* C1: every logout(), whether its POST /api/auth/logout resolved or rejected,
\* returns normally after calling removeItem, and unless that removeItem itself
\* rejected the store holds no entry at the return; the getCurrentUser() that
\* follows returns null, and the isAuthenticated() that follows returns false
\* without sending GET /api/auth/me.
C1_LogoutClearsCache ==
    /\ last.op = "logout" =>
          /\ Returned(last, Void)
          /\ last.calls = <<PostLogout, RemoveItem>>
          /\ ~Rejected(last, RemoveItem) => last.after = NoEntry
    /\ (prev.op = "logout" /\ ~Rejected(prev, RemoveItem)) =>
          /\ last.op = "getCurrentUser" => Returned(last, Null)
          /\ last.op = "isAuthenticated" =>
                Returned(last, False) /\ ~Has(last, GetMe)

\* A logout() whose request failed while a profile was cached, followed by an
\* isAuthenticated() that answered false.
C1_Witness ==
    /\ prev.op = "logout"
    /\ prev.before # NoEntry
    /\ Rejected(prev, PostLogout)
    /\ prev.after = NoEntry
    /\ last.op = "isAuthenticated"
    /\ Returned(last, False)

\* C2: an isAuthenticated() whose GET /api/auth/me rejected (no response, or a
\* non-success status) has, when it returns, sent one POST /api/auth/logout and
\* then called removeItem, in that order; it returns false, and unless the
\* removeItem rejected the store holds no entry at the return and the
\* getCurrentUser() that follows returns null.
C2_FailedValidationLogsOut ==
    /\ (last.op = "isAuthenticated" /\ Rejected(last, GetMe)) =>
          /\ last.calls = <<GetItem, GetMe, PostLogout, RemoveItem>>
          /\ Len(last.replies) = 4
          /\ Returned(last, False)
          /\ ~Rejected(last, RemoveItem) => last.after = NoEntry
    /\ ( /\ prev.op = "isAuthenticated"
         /\ Rejected(prev, GetMe)
         /\ ~Rejected(prev, RemoveItem)
         /\ last.op = "getCurrentUser" ) => Returned(last, Null)

\* A cached profile, a validation answered with a non-success status, and the
\* getCurrentUser() after it.
C2_Witness ==
    /\ prev.op = "isAuthenticated"
    /\ prev.before # NoEntry
    /\ Answered(prev, GetMe, {"status error"})
    /\ prev.after = NoEntry
    /\ last.op = "getCurrentUser"
    /\ Returned(last, Null)

\* C3: an isAuthenticated() that found a profile cached and whose
\* GET /api/auth/me resolved returns true, leaves the store's entry as it was
\* when the method was called, and sends no logout request.
C3_ValidSessionKeepsCache ==
    (last.op = "isAuthenticated" /\ Resolved(last, GetMe)) =>
        /\ Returned(last, True)
        /\ last.after = last.before
        /\ last.before # NoEntry
        /\ last.calls = <<GetItem, GetMe>>

C3_Witness ==
    /\ last.op = "isAuthenticated"
    /\ Resolved(last, GetMe)
    /\ last.before \in { Stringify(b) : b \in Bodies }
    /\ last.after = last.before
    /\ Returned(last, True)

\* C4: an isAuthenticated() called while the store holds no entry, and whose
\* getItem resolved, returns false right after the read: it calls the transport
\* not at all (no GET /api/auth/me, no POST /api/auth/logout).
C4_NoProfileNoRequest ==
    (last.op = "isAuthenticated" /\ last.before = NoEntry
        /\ ~Rejected(last, GetItem)) =>
        /\ Returned(last, False)
        /\ last.calls = <<GetItem>>
        /\ last.after = NoEntry

C4_Witness ==
    /\ last.op = "isAuthenticated"
    /\ last.before = NoEntry
    /\ Resolved(last, GetItem)
    /\ Returned(last, False)
    /\ prev.op = "login"

\* C5: a login() that returned, returned the body of the server's response, and
\* the getCurrentUser() that follows it (its getItem resolving) returns that
\* same body, whatever the store held before the login.
C5_LoginThenGetCurrentUser ==
    /\ (last.op = "login" /\ last.result.kind = "return") =>
          /\ last.body \in Bodies
          /\ Returned(last, last.body)
          /\ last.after = Stringify(last.body)
    /\ ( /\ prev.op = "login"
         /\ prev.result.kind = "return"
         /\ last.op = "getCurrentUser"
         /\ ~Rejected(last, GetItem) ) => Returned(last, prev.body)

\* A second login that replaced another profile, then getCurrentUser().
C5_Witness ==
    /\ prev.op = "login"
    /\ prev.result.kind = "return"
    /\ prev.before \in { Stringify(b) : b \in Bodies \ {prev.body} }
    /\ last.op = "getCurrentUser"
    /\ Returned(last, prev.body)

\* C6: every forceLogout(), whether its forced request resolved or rejected
\* (a timeout is a rejection), returns normally after calling removeItem, which
\* it calls after the request settled; unless that removeItem itself rejected,
\* the store holds no entry at the return.
C6_ForceLogoutClearsCache ==
    last.op = "forceLogout" =>
        /\ Returned(last, Void)
        /\ last.calls = <<PostForced, RemoveItem>>
        /\ Len(last.replies) = 2
        /\ ~Rejected(last, RemoveItem) => last.after = NoEntry

C6_Witness ==
    /\ last.op = "forceLogout"
    /\ last.before # NoEntry
    /\ Rejected(last, PostForced)
    /\ Resolved(last, RemoveItem)
    /\ last.after = NoEntry

\* C7: a login() whose request rejected rejects with that same error, has sent
\* that one request and nothing else, and leaves the store's entry as it was.
C7_LoginFailurePropagates ==
    (last.op = "login" /\ Rejected(last, PostLogin)) =>
        /\ last.result = Raise(last.replies[1])
        /\ last.calls = <<PostLogin>>
        /\ last.after = last.before

C7_Witness ==
    /\ last.op = "login"
    /\ Answered(last, PostLogin, {"network error"})
    /\ last.result = Raise("network error")
    /\ last.before # NoEntry
    /\ last.after = last.before

\* C8: whatever the transport and the store answer (each request, getItem,
\* removeItem and JSON.parse succeeding or failing), logout, forceLogout,
\* cleanLocalStorage, isAuthenticated and getCurrentUser return normally:
\* only login ever rejects.
C8_OnlyLoginRaises ==
    /\ last.op \in Ops \ {"login"} => last.result.kind = "return"
    /\ last.result.kind = "raise" => last.op = "login"

\* isAuthenticated() with every collaborator call failing.
C8_Witness ==
    /\ last.op = "isAuthenticated"
    /\ Rejected(last, GetItem)
    /\ Rejected(last, PostLogout)
    /\ Rejected(last, RemoveItem)
    /\ last.result.kind = "return"

\* C9, as claimed: when the login request resolved and setItem rejected, login()
\* still returns the profile and raises nothing.
C9_WriteFailureSwallowed ==
    (last.op = "login" /\ Resolved(last, PostLogin) /\ Rejected(last, SetItem)) =>
        Returned(last, last.body)

\* C9, amended: when the login request resolved and setItem rejected, login()
\* rejects with the store's error and the store's entry is as it was; in every
\* other method a rejected store primitive or JSON.parse is swallowed.
C9_WriteFailureRaised ==
    /\ (last.op = "login" /\ Resolved(last, PostLogin) /\ Rejected(last, SetItem)) =>
          /\ last.result = Raise(StorageError)
          /\ last.after = last.before
    /\ ( /\ last.op \in Ops \ {"login"}
         /\ \E c \in {GetItem, RemoveItem, JsonParse} : Rejected(last, c) ) =>
          last.result.kind = "return"

C9_Witness ==
    /\ last.op = "login"
    /\ Resolved(last, PostLogin)
    /\ Rejected(last, SetItem)
    /\ last.body \in Bodies
    /\ last.result = Raise(StorageError)

\* C10, as claimed: an isAuthenticated() whose getItem rejected returns false
\* and calls the transport not at all, as on a cache miss; a getCurrentUser()
\* whose getItem or JSON.parse failed returns null.
C10_ReadFailureIsCacheMiss ==
    /\ (last.op = "isAuthenticated" /\ Rejected(last, GetItem)) =>
          /\ Returned(last, False)
          /\ ~Has(last, GetMe)
          /\ ~Has(last, PostLogout)
    /\ ( /\ last.op = "getCurrentUser"
         /\ (Rejected(last, GetItem) \/ Rejected(last, JsonParse)) ) =>
          Returned(last, Null)

\* C10, amended: an isAuthenticated() whose getItem rejected returns false and
\* sends no GET /api/auth/me, but it runs the logout sequence: one
\* POST /api/auth/logout, then removeItem; a getCurrentUser() whose getItem or
\* JSON.parse failed returns null.
C10_ReadFailureLogsOut ==
    /\ (last.op = "isAuthenticated" /\ Rejected(last, GetItem)) =>
          /\ Returned(last, False)
          /\ last.calls = <<GetItem, PostLogout, RemoveItem>>
    /\ ( /\ last.op = "getCurrentUser"
         /\ (Rejected(last, GetItem) \/ Rejected(last, JsonParse)) ) =>
          Returned(last, Null)

\* isAuthenticated() on an empty store whose getItem rejected, after a
\* getCurrentUser() that could not parse the entry.
C10_Witness ==
    /\ last.op = "isAuthenticated"
    /\ Rejected(last, GetItem)
    /\ Has(last, PostLogout)
    /\ Returned(last, False)
    /\ prev.op = "getCurrentUser"
    /\ Rejected(prev, JsonParse)
    /\ Returned(prev, Null)

\* C11: cleanLocalStorage() never raises and calls removeItem once; unless that
\* removeItem rejected, the store holds no entry when it returns, whether or not
\* one was cached before; called a second time right after, it raises nothing
\* and leaves the store as the first call left it.
C11_CleanIsIdempotent ==
    /\ last.op = "cleanLocalStorage" =>
          /\ Returned(last, Void)
          /\ last.calls = <<RemoveItem>>
          /\ ~Rejected(last, RemoveItem) => last.after = NoEntry
    /\ ( /\ prev.op = "cleanLocalStorage"
         /\ ~Rejected(prev, RemoveItem)
         /\ last.op = "cleanLocalStorage" ) =>
          /\ last.before = NoEntry
          /\ last.after = prev.after

\* Two calls in a row, the first of which removed a cached profile.
C11_Witness ==
    /\ prev.op = "cleanLocalStorage"
    /\ prev.before # NoEntry
    /\ prev.after = NoEntry
    /\ Returned(prev, Void)
    /\ last.op = "cleanLocalStorage"
    /\ Resolved(last, RemoveItem)
    /\ last.after = NoEntry
    /\ Returned(last, Void)

\* C12, as claimed: in every interleaving, whenever isAuthenticated() returns
\* false the store holds no entry at the moment of the return.
C12_FalseMeansNoProfile ==
    (last.op = "isAuthenticated" /\ Returned(last, False)) =>
        last.after = NoEntry

\* C12, amended: in every interleaving, whenever isAuthenticated() returns
\* false the store holds no entry at the moment of the return, unless its
\* removeItem rejected or a login's setItem took effect after it last accessed
\* the store (after the read that found nothing, or after its removeItem).
C12_FalseMeansNoProfileUnlessWrittenSince ==
    ( /\ last.op = "isAuthenticated"
      /\ Returned(last, False)
      /\ ~Rejected(last, RemoveItem)
      /\ ~last.late ) => last.after = NoEntry

\* An isAuthenticated() that ran beside a login: the login's profile was stored
\* after the read and before the removal, and the method returned false over
\* an empty store.
C12_Witness ==
    /\ ~awaited
    /\ last.op = "isAuthenticated"
    /\ Returned(last, False)
    /\ Rejected(last, GetMe)
    /\ Resolved(last, RemoveItem)
    /\ last.fresh
    /\ ~last.late
    /\ last.after = NoEntry

\* C13: in every interleaving, the removeItem that isAuthenticated() runs after
\* a failed validation never removes an entry that a login wrote after
\* isAuthenticated() read the store.
C13_NoReadThenActRace ==
    ~( /\ last.op = "isAuthenticated"
       /\ Resolved(last, GetItem)
       /\ Rejected(last, GetMe)
       /\ Resolved(last, RemoveItem)
       /\ last.fresh )

\* The operations that end by removing the cached entry.
Removers == {"cleanLocalStorage", "logout", "forceLogout", "isAuthenticated"}

\* C17, as claimed: a removal that fails does not leave the profile behind: a
\* getCurrentUser() that follows an operation whose removeItem rejected
\* returns null.
C17_FailedRemovalLeavesNothing ==
    ( /\ prev.op \in Removers
      /\ Rejected(prev, RemoveItem)
      /\ last.op = "getCurrentUser" ) => Returned(last, Null)

\* C17, amended: a removal that fails is swallowed and leaves the entry as it
\* was: the operation still completes without raising, the store is unchanged,
\* and a getCurrentUser() that follows and whose read succeeds returns the
\* profile that is still cached (null only if nothing was cached).
C17_FailedRemovalKeepsEntry ==
    /\ (last.op \in Removers /\ Rejected(last, RemoveItem)) =>
          /\ last.result.kind = "return"
          /\ last.after = last.before
    /\ ( /\ prev.op \in Removers
         /\ Rejected(prev, RemoveItem)
         /\ last.op = "getCurrentUser"
         /\ Resolved(last, GetItem) ) =>
            Returned(last, IF prev.before = NoEntry THEN Null
                           ELSE Parse(prev.before))

\* A logout whose removeItem rejected while a profile was cached, followed by
\* a getCurrentUser() that returned that profile.
C17_Witness ==
    /\ prev.op \in Removers
    /\ Rejected(prev, RemoveItem)
    /\ prev.before # NoEntry
    /\ last.op = "getCurrentUser"
    /\ Resolved(last, GetItem)
    /\ last.result.kind = "return"
    /\ last.result # Value(Null)
    /\ last.result = Value(Parse(prev.before))

\* The network requests the service sends.
Requests == {PostLogin, PostLogout, PostForced, GetMe}

\* Caller p takes the step.
Actor(p) == pc'[p] # pc[p]

\* The step is the setItem of a login of p whose request resolved, and it
\* stores the text of that response body.
WrittenByLogin(p) ==
    /\ frame[p].op = "login"
    /\ pc[p] = "login_set"
    /\ Resolved(frame[p], PostLogin)
    /\ store' = Stringify(frame[p].body)

\* The step is the removeItem of an operation of p whose op is one of ops.
RemovedBy(p, ops) ==
    /\ frame[p].op \in ops
    /\ pc[p] = "clean_remove"
    /\ store' = NoEntry

\* A stored entry is the JSON text of a login response body.
WellFormedEntry ==
    store = NoEntry \/ \E b \in Bodies : store = Stringify(b)

\* getCurrentUser sends no network request.
GetCurrentUserIsLocal ==
    /\ \A p \in Callers : frame[p].op = "getCurrentUser" =>
          \A r \in Requests : ~Has(frame[p], r)
    /\ last.op = "getCurrentUser" => \A r \in Requests : ~Has(last, r)

\* C14, as claimed: the entry is written only by a login whose request
\* succeeded, removed only by logout, forceLogout, cleanLocalStorage or an
\* isAuthenticated whose validation request failed, and left unchanged by every
\* other step; getCurrentUser sends no request; hence the entry is absent or
\* the text of the response body of a successful login.
C14_OnlyLoginWritesOnlyLogoutRemoves ==
    /\ [][\A p \in Callers : (Actor(p) /\ store' # store) =>
            \/ WrittenByLogin(p)
            \/ RemovedBy(p, {"logout", "forceLogout", "cleanLocalStorage"})
            \/ RemovedBy(p, {"isAuthenticated"}) /\ Rejected(frame[p], GetMe)]_vars
    /\ [](WellFormedEntry /\ GetCurrentUserIsLocal)

\* C14, amended: the entry is written only by a login whose request
\* succeeded, removed only by logout, forceLogout, cleanLocalStorage or an
\* isAuthenticated whose validation request failed or whose read of the store
\* failed, and left unchanged by every other step; getCurrentUser sends no
\* request; hence the entry is absent or the text of the response body of a
\* successful login.
C14_OnlyLoginWritesOnlyCleanupRemoves ==
    /\ [][\A p \in Callers : (Actor(p) /\ store' # store) =>
            \/ WrittenByLogin(p)
            \/ RemovedBy(p, {"logout", "forceLogout", "cleanLocalStorage"})
            \/ RemovedBy(p, {"isAuthenticated"}) /\ Rejected(frame[p], GetMe)
            \/ RemovedBy(p, {"isAuthenticated"}) /\ Rejected(frame[p], GetItem)]_vars
    /\ [](WellFormedEntry /\ GetCurrentUserIsLocal)

\* A login stored its profile and returned; an isAuthenticated whose getItem
\* rejected, and which sent no validation request, has since removed it.
C14_Witness ==
    /\ last.op = "login"
    /\ last.result.kind = "return"
    /\ last.after # NoEntry
    /\ store = NoEntry
    /\ \E p \in Callers :
          /\ frame[p].op = "isAuthenticated"
          /\ pc[p] = "clean_removed"
          /\ Rejected(frame[p], GetItem)
          /\ ~Has(frame[p], GetMe)

\* C15: a logout() or forceLogout() changes the store only in its removeItem,
\* which runs after its one logout request has settled (resolved or rejected);
\* each call sends exactly one logout request; and a getCurrentUser() that runs
\* wholly while another caller's logout is suspended on that request, over a
\* store holding a profile, returns that profile.
C15_RemovalAfterNotification ==
    /\ [][\A p \in Callers :
            ( /\ Actor(p)
              /\ (frame[p].op \in {"logout", "forceLogout"}
                    \/ frame'[p].op \in {"logout", "forceLogout"})
              /\ store' # store ) =>
                 /\ pc[p] = "clean_remove"
                 /\ store' = NoEntry
                 /\ \/ frame[p].calls = <<PostLogout, RemoveItem>>
                    \/ frame[p].calls = <<PostForced, RemoveItem>>
                 /\ Answered(frame[p], frame[p].calls[1],
                             {"ok"} \cup TransportErrors)]_vars
    /\ [] /\ last.op = "logout" => last.calls = <<PostLogout, RemoveItem>>
          /\ last.op = "forceLogout" => last.calls = <<PostForced, RemoveItem>>
          /\ ( /\ last.op = "getCurrentUser"
               /\ last.calm
               /\ Resolved(last, GetItem) ) =>
                  /\ last.after # NoEntry
                  /\ Returned(last, Parse(last.after))

\* A getCurrentUser() returned the cached profile while the other caller's
\* logout was still suspended on its request.
C15_Witness ==
    /\ last.op = "getCurrentUser"
    /\ last.calm
    /\ last.after # NoEntry
    /\ Returned(last, Parse(last.after))
    /\ store # NoEntry
    /\ \E q \in Callers :
          /\ frame[q].op \in {"logout", "forceLogout"}
          /\ pc[q] \in {"logout_post", "force_post"}

\* The requests among the calls of c, in the order they were sent.
RequestsOf(c) == SelectSeq(c.calls, LAMBDA x : x \in Requests)

\* Call c has made no collaborator call twice, and if it is an
\* isAuthenticated() its requests are at most one GET /api/auth/me and, after
\* it, at most one POST /api/auth/logout (the logout request alone when the
\* read of the store failed before any validation).
NoRetry(c) ==
    /\ \A i, j \in DOMAIN c.calls : (i # j) => c.calls[i] # c.calls[j]
    /\ c.op = "isAuthenticated" =>
          RequestsOf(c) \in {<<>>, <<GetMe>>, <<GetMe, PostLogout>>,
                             <<PostLogout>>}

\* C16: provided every awaited network or storage call eventually completes,
\* every call of a method eventually returns or raises; no collaborator call is
\* repeated within one call of a method, and isAuthenticated() sends at most two
\* requests, GET /api/auth/me and then at most one POST /api/auth/logout.
C16_EveryCallTerminates ==
    /\ \A p \in Callers : (pc[p] # "idle") ~> (pc[p] = "idle")
    /\ [](\A p \in Callers : NoRetry(frame[p]))

\* An isAuthenticated() has gone the longest way (read, failed validation,
\* logout request, removal taken effect) and only its return is left, while
\* the other caller is in the middle of a call of its own.
C16_Witness ==
    \E p \in Callers :
        /\ frame[p].op = "isAuthenticated"
        /\ pc[p] = "clean_removed"
        /\ frame[p].calls = <<GetItem, GetMe, PostLogout, RemoveItem>>
        /\ Len(frame[p].replies) = 3
        /\ \E q \in Callers \ {p} : pc[q] # "idle"
        /\ ~observed

=============================================================================
